---------------------------- MODULE Spec2Model ----------------------------
(***************************************************************************)
(* Architecture boundary checker (run_checks.py).                          *)
(*                                                                         *)
(* Strings that the program inspects (paths, regular expressions, module   *)
(* names) are sequences of symbols; a symbol stands for one character or   *)
(* for a run of identifier characters ("app", "data", ...).  Python dicts  *)
(* are records whose DOMAIN is the set of keys that are present, so        *)
(* d.get(k, default) and `k in d` are modelled as the code writes them.    *)
(***************************************************************************)
EXTENDS Integers, Sequences, FiniteSets, TLC

VARIABLES
    call,              \* arguments of the function under test (pure-function specifications)
    ret,               \* its return value and output, NotCalled before the call
    root,              \* the path argument as found on disk: exists, is_file, the .py files below it
    env,               \* what load_config reads: config_path, the config files, yaml / tomli
    no_fail,           \* args.no_fail
    pc,                \* position of main()
    config,            \* main's config
    python_files,      \* main's python_files
    idx,               \* index of the loop over python_files
    violations_found,
    all_violations,
    stdout,            \* the lines printed so far
    exit_code,         \* the exit status once pc = "exit"
    checked            \* history: each check_file call of the loop, with what it returned and printed

callVars == <<call, ret>>
mainVars == <<root, env, no_fail, pc, config, python_files, idx, violations_found,
              all_violations, stdout, exit_code, checked>>
vars == <<call, ret, root, env, no_fail, pc, config, python_files, idx, violations_found,
          all_violations, stdout, exit_code, checked>>

\* main() is not running: the state of the specifications of single functions
MainIdle ==
    /\ root = [exists |-> FALSE]
    /\ env = <<>>
    /\ no_fail = FALSE
    /\ pc = "idle"
    /\ config = <<>>
    /\ python_files = <<>>
    /\ idx = 0
    /\ violations_found = FALSE
    /\ all_violations = <<>>
    /\ stdout = <<>>
    /\ exit_code = -1
    /\ checked = <<>>

None == "None"
NotCalled == [called |-> FALSE]

\* d.get(key, default) / d.get(key)
Get(d, key, default) == IF key \in DOMAIN d THEN d[key] ELSE default

\* x in list
In(x, list) == \E i \in DOMAIN list : list[i] = x

\* Python truthiness of an element type (Optional[str]): None and "" are false
Truthy(s) == s # None /\ s # ""

-----------------------------------------------------------------------------
(* re.search over symbol strings.  A pattern is a sequence of tokens:      *)
(*   ".*"   any run of symbols          "\\."  a literal dot               *)
(*   "$"    end of string (when last)   "("    an unclosed group: re.error *)
(*   any other token: that literal symbol                                  *)

RegexError(pattern) == In("(", pattern)

RECURSIVE MatchHere(_, _)
MatchHere(pattern, s) ==
    IF Len(pattern) = 0 THEN TRUE
    ELSE IF Head(pattern) = "$" /\ Len(pattern) = 1 THEN Len(s) = 0
    ELSE IF Head(pattern) = ".*"
         THEN \E k \in 0..Len(s) : MatchHere(Tail(pattern), SubSeq(s, k + 1, Len(s)))
    ELSE IF Head(pattern) = "\\."
         THEN Len(s) > 0 /\ Head(s) = "." /\ MatchHere(Tail(pattern), Tail(s))
    ELSE Len(s) > 0 /\ Head(s) = Head(pattern) /\ MatchHere(Tail(pattern), Tail(s))

\* re.search(pattern, s) is not None, for a pattern that compiles
ReSearch(pattern, s) ==
    \E i \in 1..(Len(s) + 1) : MatchHere(pattern, SubSeq(s, i, Len(s)))

-----------------------------------------------------------------------------
(* determine_element_type: returns [ret, out], out being the warnings it   *)
(* prints.                                                                 *)

RegexWarning(pattern) == [kind |-> "warning", what |-> "regex", pattern |-> pattern]

RECURSIVE DetermineElementTypeFrom(_, _, _)
DetermineElementTypeFrom(file_path, elements, i) ==
    IF i > Len(elements) THEN [ret |-> None, out |-> <<>>]
    ELSE LET element == elements[i]
             pattern == Get(element, "pattern", <<>>)
             rest    == DetermineElementTypeFrom(file_path, elements, i + 1)
         IN  IF Len(pattern) = 0 THEN rest
             ELSE IF RegexError(pattern)
                  THEN [ret |-> rest.ret, out |-> <<RegexWarning(pattern)>> \o rest.out]
             ELSE IF ReSearch(pattern, file_path)
                  THEN [ret |-> Get(element, "type", None), out |-> <<>>]
             ELSE rest

\* Variant: the last matching element wins
RECURSIVE DetermineLastMatch(_, _)
DetermineLastMatch(file_path, elements) ==
    IF Len(elements) = 0 THEN [ret |-> None, out |-> <<>>]
    ELSE LET n       == Len(elements)
             element == elements[n]
             pattern == Get(element, "pattern", <<>>)
             rest    == DetermineLastMatch(file_path, SubSeq(elements, 1, n - 1))
         IN  IF Len(pattern) = 0 THEN rest
             ELSE IF RegexError(pattern)
                  THEN [ret |-> rest.ret, out |-> rest.out \o <<RegexWarning(pattern)>>]
             ELSE IF ReSearch(pattern, file_path)
                  THEN [ret |-> Get(element, "type", None), out |-> <<>>]
             ELSE rest

\* Variant: a pattern that does not compile ends the scan
RECURSIVE DetermineAbortOnRegexError(_, _)
DetermineAbortOnRegexError(file_path, elements) ==
    IF Len(elements) = 0 THEN [ret |-> None, out |-> <<>>]
    ELSE LET element == Head(elements)
             pattern == Get(element, "pattern", <<>>)
             rest    == DetermineAbortOnRegexError(file_path, Tail(elements))
         IN  IF Len(pattern) = 0 THEN rest
             ELSE IF RegexError(pattern)
                  THEN [ret |-> None, out |-> <<RegexWarning(pattern)>>]
             ELSE IF ReSearch(pattern, file_path)
                  THEN [ret |-> Get(element, "type", None), out |-> <<>>]
             ELSE rest

DetermineElementType(file_path, elements) ==
    DetermineElementTypeFrom(file_path, elements, 1)

-----------------------------------------------------------------------------
(* is_allowed_dependency                                                   *)

\* Variant: the first rule whose 'from' matches decides outright
RECURSIVE ScanFirstFromWins(_, _, _, _)
ScanFirstFromWins(from_type, to_type, specific_rules, default_allow) ==
    IF Len(specific_rules) = 0 THEN default_allow
    ELSE LET rule == Head(specific_rules)
         IN  IF Get(rule, "from", None) = from_type
             THEN IF "allow" \in DOMAIN rule /\ In(to_type, Get(rule, "allow", <<>>))
                  THEN TRUE
                  ELSE IF "disallow" \in DOMAIN rule /\ In(to_type, Get(rule, "disallow", <<>>))
                       THEN FALSE
                       ELSE default_allow
             ELSE ScanFirstFromWins(from_type, to_type, Tail(specific_rules), default_allow)

RECURSIVE ScanSpecificRules(_, _, _, _)
ScanSpecificRules(from_type, to_type, specific_rules, default_allow) ==
    IF Len(specific_rules) = 0 THEN default_allow
    ELSE LET rule == Head(specific_rules)
             rest == ScanSpecificRules(from_type, to_type, Tail(specific_rules), default_allow)
         IN  IF Get(rule, "from", None) = from_type
             THEN IF "allow" \in DOMAIN rule /\ In(to_type, Get(rule, "allow", <<>>))
                  THEN TRUE
                  ELSE IF "disallow" \in DOMAIN rule /\ In(to_type, Get(rule, "disallow", <<>>))
                       THEN FALSE
                       ELSE rest
             ELSE rest

\* Variant: a missing 'default' key means allow
IsAllowedMissingDefaultAllows(from_type, to_type, rules) ==
    IF from_type = to_type THEN TRUE
    ELSE ScanSpecificRules(from_type, to_type, Get(rules, "specific", <<>>),
                           Get(rules, "default", "allow") = "allow")

\* Variant: the default policy is not consulted, an unresolved query is disallowed
IsAllowedIgnoresDefault(from_type, to_type, rules) ==
    IF from_type = to_type THEN TRUE
    ELSE ScanSpecificRules(from_type, to_type, Get(rules, "specific", <<>>), FALSE)

\* Variant: no short-circuit for a dependency within the same element
IsAllowedNoSelfCheck(from_type, to_type, rules) ==
    ScanSpecificRules(from_type, to_type, Get(rules, "specific", <<>>),
                      Get(rules, "default", "disallow") = "allow")

IsAllowedDependency(from_type, to_type, rules) ==
    IF from_type = to_type THEN TRUE
    ELSE LET default_allow  == Get(rules, "default", "disallow") = "allow"
             specific_rules == Get(rules, "specific", <<>>)
         IN  ScanSpecificRules(from_type, to_type, specific_rules, default_allow)

-----------------------------------------------------------------------------
(* extract_imports.  A source file is [path, readable, content]; content   *)
(* is [parses |-> FALSE] when ast.parse raises SyntaxError and otherwise   *)
(* [parses |-> TRUE, body |-> statements].  A statement is a record with   *)
(* its node class, its lineno and, for compound statements, its child      *)
(* statement lists.  An ImportFrom whose module is None (from . import x)   *)
(* has no module field.                                                    *)

\* ast.iter_child_nodes restricted to statements: the fields in _fields order
IterChildNodes(node) == Get(node, "body", <<>>) \o Get(node, "orelse", <<>>)

\* ast.walk: breadth first, from a queue
RECURSIVE Walk(_)
Walk(todo) ==
    IF Len(todo) = 0 THEN <<>>
    ELSE <<Head(todo)>> \o Walk(Tail(todo) \o IterChildNodes(Head(todo)))

\* the records the loop over ast.walk appends
RECURSIVE ImportRecords(_)
ImportRecords(nodes) ==
    IF Len(nodes) = 0 THEN <<>>
    ELSE LET node == Head(nodes)
             here == IF node.node = "Import"
                     THEN [i \in DOMAIN node.names |-> <<node.lineno, node.names[i]>>]
                     ELSE IF node.node = "ImportFrom" /\ "module" \in DOMAIN node
                             /\ Len(node.module) > 0
                          THEN << <<node.lineno, node.module>> >>
                          ELSE <<>>
         IN  here \o ImportRecords(Tail(nodes))

FileWarning(file_path, what) == [kind |-> "warning", what |-> what, file |-> file_path]

\* Variant: a SyntaxError is not caught and leaves extract_imports
ExtractImportsRaising(file) ==
    IF ~file.readable
    THEN [ret |-> <<>>, out |-> <<FileWarning(file.path, "read")>>, raised |-> FALSE]
    ELSE IF ~file.content.parses
         THEN [ret |-> <<>>, out |-> <<>>, raised |-> TRUE]
         ELSE [ret |-> ImportRecords(Walk(<<[node |-> "Module", body |-> file.content.body]>>)),
               out |-> <<>>, raised |-> FALSE]

ExtractImports(file) ==
    IF ~file.readable
    THEN [ret |-> <<>>, out |-> <<FileWarning(file.path, "read")>>, raised |-> FALSE]
    ELSE IF ~file.content.parses
         THEN [ret |-> <<>>, out |-> <<FileWarning(file.path, "syntax")>>, raised |-> FALSE]
         ELSE [ret |-> ImportRecords(Walk(<<[node |-> "Module", body |-> file.content.body]>>)),
               out |-> <<>>, raised |-> FALSE]

-----------------------------------------------------------------------------
(* check_file                                                              *)

RECURSIVE Replace(_, _, _)
Replace(s, old, new) ==
    IF Len(s) = 0 THEN <<>>
    ELSE <<IF Head(s) = old THEN new ELSE Head(s)>> \o Replace(Tail(s), old, new)

ImportNameToPseudoPath(import_name) == Replace(import_name, ".", "/") \o <<".", "py">>

\* the loop over the import records: [ret |-> violations, out |-> warnings]
RECURSIVE CheckImports(_, _, _)
CheckImports(imports, file_type, cfg) ==
    IF Len(imports) = 0 THEN [ret |-> <<>>, out |-> <<>>]
    ELSE LET line_num    == Head(imports)[1]
             import_name == Head(imports)[2]
             pseudo_path == ImportNameToPseudoPath(import_name)
             import_type == DetermineElementType(pseudo_path, Get(cfg, "elements", <<>>))
             rest        == CheckImports(Tail(imports), file_type, cfg)
             violation   ==
                 IF /\ Truthy(import_type.ret) /\ import_type.ret # file_type
                    /\ ~IsAllowedDependency(file_type, import_type.ret, Get(cfg, "rules", <<>>))
                 THEN << <<line_num, file_type, import_type.ret, import_name>> >>
                 ELSE <<>>
         IN  [ret |-> violation \o rest.ret, out |-> import_type.out \o rest.out]

\* Variant: an import that resolves to no element is scanned like any other
RECURSIVE CheckImportsUnresolved(_, _, _)
CheckImportsUnresolved(imports, file_type, cfg) ==
    IF Len(imports) = 0 THEN [ret |-> <<>>, out |-> <<>>]
    ELSE LET line_num    == Head(imports)[1]
             import_name == Head(imports)[2]
             pseudo_path == ImportNameToPseudoPath(import_name)
             import_type == DetermineElementType(pseudo_path, Get(cfg, "elements", <<>>))
             rest        == CheckImportsUnresolved(Tail(imports), file_type, cfg)
             violation   ==
                 IF /\ import_type.ret # file_type
                    /\ ~IsAllowedDependency(file_type, import_type.ret, Get(cfg, "rules", <<>>))
                 THEN << <<line_num, file_type, import_type.ret, import_name>> >>
                 ELSE <<>>
         IN  [ret |-> violation \o rest.ret, out |-> import_type.out \o rest.out]

CheckFileFlagsUnresolved(file, cfg) ==
    LET file_type == DetermineElementType(file.path, Get(cfg, "elements", <<>>))
    IN  IF ~Truthy(file_type.ret)
        THEN [ret |-> <<>>, out |-> file_type.out, raised |-> FALSE]
        ELSE LET imports == ExtractImports(file)
                 scanned == CheckImportsUnresolved(imports.ret, file_type.ret, cfg)
             IN  [ret |-> scanned.ret, out |-> file_type.out \o imports.out \o scanned.out,
                  raised |-> FALSE]

\* [ret |-> violations, out |-> warnings printed, raised |-> an exception left the call]
CheckFile(file, cfg) ==
    LET file_type == DetermineElementType(file.path, Get(cfg, "elements", <<>>))
    IN  IF ~Truthy(file_type.ret)
        THEN [ret |-> <<>>, out |-> file_type.out, raised |-> FALSE]
        ELSE LET imports == ExtractImports(file)
             IN  IF imports.raised
                 THEN [ret |-> <<>>, out |-> file_type.out \o imports.out, raised |-> TRUE]
                 ELSE LET scanned == CheckImports(imports.ret, file_type.ret, cfg)
                      IN  [ret |-> scanned.ret,
                           out |-> file_type.out \o imports.out \o scanned.out,
                           raised |-> FALSE]

-----------------------------------------------------------------------------
(* Inputs of the rule engine                                               *)

MaxRules == 2

Types == {"data", "logic", "ui"}

RuleFroms == {"ui", "data"}
TargetLists == {<<>>, <<"logic", "data">>, <<"ui">>}

RulePool ==
    {[from |-> f] : f \in RuleFroms}
    \cup {[from |-> f, allow |-> a] : f \in RuleFroms, a \in TargetLists}
    \cup {[from |-> f, disallow |-> d] : f \in RuleFroms, d \in TargetLists}
    \cup {[from |-> f, allow |-> a, disallow |-> d] :
             f \in RuleFroms, a \in TargetLists, d \in TargetLists}

SeqsUpTo(S, n) == UNION {[1..k -> S] : k \in 0..n}

SpecificLists == SeqsUpTo(RulePool, MaxRules)

RuleSets ==
    {[default |-> d, specific |-> s] : d \in {"allow", "disallow"}, s \in SpecificLists}
    \cup {[specific |-> s] : s \in SpecificLists}
    \cup {[default |-> d] : d \in {"allow", "disallow"}}

(* Specification of the rule engine: one query, drawn from the inputs.     *)
InitRules ==
    /\ call \in [fn : {"is_allowed_dependency"}, from_type : Types, to_type : Types,
                 rules : RuleSets]
    /\ ret = NotCalled
    /\ MainIdle

CallIsAllowedDependency ==
    /\ call.fn = "is_allowed_dependency"
    /\ ret = NotCalled
    /\ ret' = [called |-> TRUE,
               ret |-> IsAllowedDependency(call.from_type, call.to_type, call.rules)]
    /\ UNCHANGED call
    /\ UNCHANGED mainVars

NextRules == CallIsAllowedDependency

SpecRules == InitRules /\ [][NextRules]_vars

-----------------------------------------------------------------------------
(* Inputs of the pattern matcher                                           *)

MaxElements == 3

DataPattern  == <<".*", "/", "data", "/", ".*", "\\.", "py", "$">>
LogicPattern == <<".*", "/", "logic", "/", ".*", "\\.", "py", "$">>
UiPattern    == <<".*", "/", "ui", "/", ".*", "\\.", "py", "$">>
AppPattern   == <<"app", "/">>
BadPattern   == <<"(", "data">>

ElementPool ==
    { [type |-> "data",  pattern |-> DataPattern],
      [type |-> "logic", pattern |-> LogicPattern],
      [type |-> "ui",    pattern |-> AppPattern],
      [type |-> "empty", pattern |-> <<>>],
      [type |-> "data"],
      [type |-> "logic", pattern |-> BadPattern] }

PathPool ==
    { <<"app", "/", "data", "/", "models", ".", "py">>,
      <<"src", "/", "logic", "/", "services", ".", "py">>,
      <<"app", "/", "other", "/", "file", ".", "py">>,
      <<"app", "/", "data", "/", "models", ".", "js">>,
      <<"data", "/", "models", ".", "py">> }

InitClassify ==
    /\ call \in [fn : {"determine_element_type"}, file_path : PathPool,
                 elements : SeqsUpTo(ElementPool, MaxElements)]
    /\ ret = NotCalled
    /\ MainIdle

CallDetermineElementType ==
    /\ call.fn = "determine_element_type"
    /\ ret = NotCalled
    /\ LET r == DetermineElementType(call.file_path, call.elements)
       IN  ret' = [called |-> TRUE, ret |-> r.ret, out |-> r.out]
    /\ UNCHANGED call
    /\ UNCHANGED mainVars

NextClassify == CallDetermineElementType

SpecClassify == InitClassify /\ [][NextClassify]_vars

-----------------------------------------------------------------------------
(* Inputs of the boundary checker: source files and configurations         *)

AppData  == <<"app", ".", "data", ".", "models">>
AppLogic == <<"app", ".", "logic", ".", "services">>
AppUi    == <<"app", ".", "ui", ".", "views">>
StdLib   == <<"os">>

Import(lineno, names) == [node |-> "Import", lineno |-> lineno, names |-> names]
ImportFrom(lineno, module) == [node |-> "ImportFrom", lineno |-> lineno, module |-> module]
ImportFromDot(lineno) == [node |-> "ImportFrom", lineno |-> lineno]
FunctionDef(lineno, body) == [node |-> "FunctionDef", lineno |-> lineno, body |-> body]
ClassDef(lineno, body) == [node |-> "ClassDef", lineno |-> lineno, body |-> body]
IfStmt(lineno, body, orelse) ==
    [node |-> "If", lineno |-> lineno, body |-> body, orelse |-> orelse]
Other(lineno) == [node |-> "Expr", lineno |-> lineno]

Parsed(body) == [parses |-> TRUE, body |-> body]
SourceFile(dir, name, content) ==
    [path |-> <<"app", "/", dir, "/", name, ".", "py">>, readable |-> TRUE,
     content |-> content]

FilePool ==
    { \* class User: def __init__ ...
      SourceFile("data", "models",
                 Parsed(<<ClassDef(1, <<FunctionDef(2, <<Other(3)>>)>>)>>)),
      \* from app.data.models import User
      SourceFile("logic", "services",
                 Parsed(<<ImportFrom(1, AppData), ClassDef(3, <<Other(4)>>)>>)),
      \* from app.logic.services import UserService
      SourceFile("data", "invalid",
                 Parsed(<<ImportFrom(1, AppLogic), ClassDef(3, <<Other(4)>>)>>)),
      \* import os, app.logic.services / from . import x / from app.data.models import y
      SourceFile("ui", "views",
                 Parsed(<<Import(1, <<StdLib, AppLogic>>), ImportFromDot(2),
                          ImportFrom(3, AppData)>>)),
      \* def f(): from app.logic.services import s / import app.ui.views /
      \* if x: import app.logic.services else: import os
      SourceFile("data", "nested",
                 Parsed(<<FunctionDef(1, <<ImportFrom(2, AppLogic)>>),
                          Import(3, <<AppUi>>),
                          IfStmt(4, <<Import(5, <<AppLogic>>)>>, <<Import(7, <<StdLib>>)>>)>>)),
      \* a file outside every element that imports from one
      SourceFile("other", "util", Parsed(<<ImportFrom(1, AppLogic)>>)),
      \* a file that does not parse
      SourceFile("data", "broken", [parses |-> FALSE]),
      \* a file that cannot be read
      [path |-> <<"app", "/", "logic", "/", "gone", ".", "py">>, readable |-> FALSE] }

DataElement  == [type |-> "data",  pattern |-> DataPattern]
LogicElement == [type |-> "logic", pattern |-> LogicPattern]
UiElement    == [type |-> "ui",    pattern |-> UiPattern]
BadElement   == [type |-> "logic", pattern |-> BadPattern]
AppElement   == [type |-> "ui",    pattern |-> AppPattern]

ConfigElementLists ==
    { <<DataElement, LogicElement, UiElement>>,
      <<DataElement, LogicElement>>,
      <<BadElement, DataElement, LogicElement>>,
      <<UiElement, BadElement, LogicElement, DataElement>>,
      <<AppElement, DataElement>>,
      <<LogicElement>>,
      <<>> }

ConfigRulePool ==
    { [from |-> "ui", allow |-> <<"logic", "data">>],
      [from |-> "logic", allow |-> <<"data">>],
      [from |-> "data", disallow |-> <<"ui">>],
      [from |-> "data", allow |-> <<"logic">>, disallow |-> <<"data", "logic">>] }

ConfigRuleSets ==
    LET lists == SeqsUpTo(ConfigRulePool, MaxRules)
    IN  {[default |-> d, specific |-> sp] : d \in {"allow", "disallow"}, sp \in lists}
        \cup {[specific |-> sp] : sp \in lists}

ConfigPool ==
    {[elements |-> e, rules |-> r] : e \in ConfigElementLists, r \in ConfigRuleSets}
    \cup {[elements |-> e] : e \in ConfigElementLists}
    \cup {[rules |-> r] : r \in ConfigRuleSets}

InitExtract ==
    /\ call \in [fn : {"extract_imports"}, file : FilePool]
    /\ ret = NotCalled
    /\ MainIdle

CallExtractImports ==
    /\ call.fn = "extract_imports"
    /\ ret = NotCalled
    /\ LET r == ExtractImports(call.file)
       IN  ret' = [called |-> TRUE, ret |-> r.ret, out |-> r.out, raised |-> r.raised]
    /\ UNCHANGED call
    /\ UNCHANGED mainVars

InitCheckFile ==
    /\ call \in [fn : {"check_file"}, file : FilePool, config : ConfigPool]
    /\ ret = NotCalled
    /\ MainIdle

CallCheckFile ==
    /\ call.fn = "check_file"
    /\ ret = NotCalled
    /\ LET r == CheckFile(call.file, call.config)
       IN  ret' = [called |-> TRUE, ret |-> r.ret, out |-> r.out, raised |-> r.raised]
    /\ UNCHANGED call
    /\ UNCHANGED mainVars

InitConfigRules ==
    /\ call \in [fn : {"is_allowed_dependency"}, from_type : Types, to_type : Types,
                 rules : ConfigRuleSets]
    /\ ret = NotCalled
    /\ MainIdle

(* Specification of the engine: one call of the rule engine, of the import *)
(* extractor or of the boundary checker, on the configurations above.      *)
InitEngine == InitConfigRules \/ InitExtract \/ InitCheckFile

NextEngine == CallIsAllowedDependency \/ CallExtractImports \/ CallCheckFile

SpecEngine == InitEngine /\ [][NextEngine]_vars

-----------------------------------------------------------------------------
(* load_config.  env is [config_path, files, yaml, tomli]: the config      *)
(* argument, the configuration files that exist (name -> what loading the  *)
(* file gives) and whether the optional parsers were importable.  Loading  *)
(* gives [load |-> "error"] when open or the parser raises, [load |-> "ok"]*)
(* for an empty YAML document and [load |-> "ok", data |-> d] otherwise.   *)
(* d is a record when the document is a mapping; a document of another     *)
(* Python type carries the field py_type.                                  *)

IsDict(v) == "py_type" \notin DOMAIN v

DefaultConfig ==
    [elements |-> << [type |-> "data",  pattern |-> DataPattern],
                     [type |-> "logic", pattern |-> LogicPattern],
                     [type |-> "ui",    pattern |-> UiPattern] >>,
     rules |-> [default |-> "disallow",
                specific |-> << [from |-> "ui", allow |-> <<"logic", "data">>],
                                [from |-> "logic", allow |-> <<"data">>] >>]]

ConfigPaths ==
    <<".boundaries.yml", ".boundaries.yaml", ".boundaries.toml", "ruff.toml",
      "pyproject.toml">>

Suffix(name) ==
    CASE name \in {".boundaries.yml"} -> ".yml"
      [] name \in {".boundaries.yaml"} -> ".yaml"
      [] name \in {".boundaries.toml", "ruff.toml", "pyproject.toml"} -> ".toml"
      [] OTHER -> ".json"

ConfigWarning(what) == [kind |-> "warning", what |-> what]

\* the first of ConfigPaths that exists, None when there is none
RECURSIVE FirstExisting(_, _)
FirstExisting(paths, files) ==
    IF Len(paths) = 0 THEN None
    ELSE IF Head(paths) \in DOMAIN files THEN Head(paths)
    ELSE FirstExisting(Tail(paths), files)

\* the body of the try block for a .toml file that loaded: the section, or the
\* default configuration when the file has none
FromToml(name, toml_data) ==
    IF name = "pyproject.toml"
    THEN IF /\ "tool" \in DOMAIN toml_data /\ "ruff" \in DOMAIN toml_data.tool
            /\ "boundaries" \in DOMAIN toml_data.tool.ruff
         THEN toml_data.tool.ruff.boundaries
         ELSE IF "tool" \in DOMAIN toml_data /\ "boundaries" \in DOMAIN toml_data.tool
              THEN toml_data.tool.boundaries
              ELSE DefaultConfig
    ELSE IF "boundaries" \in DOMAIN toml_data
         THEN toml_data.boundaries
         ELSE DefaultConfig

LoadConfig(e) ==
    LET config_file == IF e.config_path # "" /\ e.config_path \in DOMAIN e.files
                       THEN e.config_path
                       ELSE FirstExisting(ConfigPaths, e.files)
    IN  IF config_file = None
        THEN [ret |-> DefaultConfig, out |-> <<ConfigWarning("no config file")>>]
        ELSE LET loaded == e.files[config_file]
             IN  IF Suffix(config_file) \in {".yml", ".yaml"}
                 THEN IF ~e.yaml
                      THEN [ret |-> DefaultConfig, out |-> <<ConfigWarning("no pyyaml")>>]
                      ELSE IF loaded.load = "error"
                      THEN [ret |-> DefaultConfig, out |-> <<ConfigWarning("load failed")>>]
                      ELSE IF "data" \in DOMAIN loaded
                      THEN [ret |-> loaded.data, out |-> <<>>]
                      ELSE [ret |-> DefaultConfig, out |-> <<>>]
                 ELSE IF Suffix(config_file) = ".toml"
                 THEN IF ~e.tomli
                      THEN [ret |-> DefaultConfig, out |-> <<ConfigWarning("no tomli")>>]
                      ELSE IF loaded.load = "error"
                      THEN [ret |-> DefaultConfig, out |-> <<ConfigWarning("load failed")>>]
                      ELSE [ret |-> FromToml(config_file, loaded.data), out |-> <<>>]
                 ELSE [ret |-> DefaultConfig, out |-> <<>>]

-----------------------------------------------------------------------------
(* scan_python_files and main                                              *)

IsPy(path) == Len(path) >= 2 /\ SubSeq(path, Len(path) - 1, Len(path)) = <<".", "py">>

\* root is [exists, is_file, file, glob]: glob is what directory.glob('**/*.py')
\* yields, in the order it yields it (nothing when the root is a file)
ScanPythonFiles(r) ==
    IF r.is_file /\ IsPy(r.file.path) THEN <<r.file>> ELSE r.glob

\* os.path.relpath(file_path, repo_parent): paths below a directory root are kept
\* relative to it; a single file is relative to its own directory
RelPath(file, r) ==
    IF r.is_file THEN SubSeq(file.path, Len(file.path) - 2, Len(file.path)) ELSE file.path

\* (rel_path, *v) for v in violations
RECURSIVE WithRelPath(_, _)
WithRelPath(rel_path, violations) ==
    IF Len(violations) = 0 THEN <<>>
    ELSE << <<rel_path>> \o Head(violations) >> \o WithRelPath(rel_path, Tail(violations))

ViolationError(rel_path, v) ==
    [kind |-> "error", file |-> rel_path, line |-> v[1], from_type |-> v[2],
     to_type |-> v[3], import_name |-> v[4]]

\* CheckPath without the sys.exit(1) of line 270
CheckPathGoesOn ==
    /\ pc = "start"
    /\ stdout' = IF ~root.exists
                 THEN stdout \o <<[kind |-> "error", what |-> "path does not exist"]>>
                 ELSE stdout
    /\ pc' = "load_config"
    /\ UNCHANGED <<root, env, no_fail, config, python_files, idx, violations_found,
                   all_violations, exit_code, checked, callVars>>

\* lines 260-270: the path argument must exist
CheckPath ==
    /\ pc = "start"
    /\ IF ~root.exists
       THEN /\ stdout' = stdout \o <<[kind |-> "error", what |-> "path does not exist"]>>
            /\ exit_code' = 1
            /\ pc' = "exit"
       ELSE /\ pc' = "load_config"
            /\ UNCHANGED <<stdout, exit_code>>
    /\ UNCHANGED <<root, env, no_fail, config, python_files, idx, violations_found,
                   all_violations, checked, callVars>>

\* lines 272-283; config.get on a value that is no dict raises AttributeError,
\* which is caught at lines 320-324
LoadConfigStep ==
    /\ pc = "load_config"
    /\ LET loaded == LoadConfig(env)
       IN  /\ config' = loaded.ret
           /\ IF IsDict(loaded.ret)
              THEN /\ stdout' = stdout \o loaded.out \o
                         <<[kind |-> "loaded"],
                           [kind |-> "settings",
                            elements |-> Len(Get(loaded.ret, "elements", <<>>)),
                            default  |-> Get(Get(loaded.ret, "rules", <<>>),
                                             "default", "disallow")]>>
                   /\ pc' = "scan"
                   /\ UNCHANGED exit_code
              ELSE /\ stdout' = stdout \o loaded.out \o
                         <<[kind |-> "loaded"], [kind |-> "error", what |-> "unexpected"]>>
                   /\ exit_code' = 1
                   /\ pc' = "exit"
    /\ UNCHANGED <<root, env, no_fail, python_files, idx, violations_found,
                   all_violations, checked, callVars>>

\* lines 285-290
Scan ==
    /\ pc = "scan"
    /\ violations_found' = FALSE
    /\ all_violations' = <<>>
    /\ python_files' = ScanPythonFiles(root)
    /\ stdout' = stdout \o <<[kind |-> "files", count |-> Len(ScanPythonFiles(root))]>>
    /\ idx' = 1
    /\ pc' = "check"
    /\ UNCHANGED <<root, env, no_fail, config, exit_code, checked, callVars>>

\* lines 292-309, one iteration; an exception that leaves check_file is caught
\* at lines 320-324
CheckNextFile ==
    /\ pc = "check"
    /\ idx <= Len(python_files)
    /\ LET file_path  == python_files[idx]
           rel_path   == RelPath(file_path, root)
           result     == CheckFile(file_path, config)
           violations == result.ret
       IN  /\ checked' = Append(checked, [file |-> file_path, violations |-> violations,
                                          out |-> result.out, raised |-> result.raised])
           /\ IF result.raised
              THEN /\ stdout' = stdout \o <<[kind |-> "group", file |-> rel_path]>>
                                  \o result.out
                                  \o <<[kind |-> "error", what |-> "unexpected"]>>
                   /\ exit_code' = 1
                   /\ pc' = "exit"
                   /\ UNCHANGED <<violations_found, all_violations, idx>>
              ELSE /\ IF Len(violations) > 0
                      THEN /\ violations_found' = TRUE
                           /\ all_violations' =
                                 all_violations \o WithRelPath(rel_path, violations)
                           /\ stdout' = stdout \o <<[kind |-> "group", file |-> rel_path]>>
                                 \o result.out
                                 \o [i \in DOMAIN violations |->
                                        ViolationError(rel_path, violations[i])]
                                 \o <<[kind |-> "endgroup"]>>
                      ELSE /\ stdout' = stdout \o <<[kind |-> "group", file |-> rel_path]>>
                                 \o result.out
                                 \o <<[kind |-> "no violations"], [kind |-> "endgroup"]>>
                           /\ UNCHANGED <<violations_found, all_violations>>
                   /\ idx' = idx + 1
                   /\ UNCHANGED <<pc, exit_code>>
    /\ UNCHANGED <<root, env, no_fail, config, python_files, callVars>>

\* lines 311-318
Summary ==
    /\ pc = "check"
    /\ idx > Len(python_files)
    /\ IF violations_found
       THEN /\ stdout' = stdout \o <<[kind |-> "done"],
                                     [kind |-> "error", total |-> Len(all_violations)]>>
            /\ exit_code' = IF ~no_fail THEN 1 ELSE 0
       ELSE /\ stdout' = stdout \o <<[kind |-> "done"], [kind |-> "notice"]>>
            /\ exit_code' = 0
    /\ pc' = "exit"
    /\ UNCHANGED <<root, env, no_fail, config, python_files, idx, violations_found,
                   all_violations, checked, callVars>>

-----------------------------------------------------------------------------
(* Inputs of a run                                                         *)

MaxFiles == 2

TestConfig ==
    [elements |-> <<DataElement, LogicElement>>,
     rules |-> [default |-> "disallow",
                specific |-> <<[from |-> "logic", allow |-> <<"data">>]>>]]

AllowConfig ==
    [elements |-> <<BadElement, DataElement, LogicElement, UiElement>>,
     rules |-> [default |-> "allow",
                specific |-> <<[from |-> "data", disallow |-> <<"ui">>]>>]]

Loaded(data) == [load |-> "ok", data |-> data]

\* a YAML document that is a list: "- elements" / "- rules"
ListDocument == [py_type |-> "list", items |-> <<"elements", "rules">>]
Env(config_path, files, yaml, tomli) ==
    [config_path |-> config_path, files |-> files, yaml |-> yaml, tomli |-> tomli]

EnvPool ==
    { Env("", <<>>, TRUE, TRUE),
      Env("", [n \in {".boundaries.yml"} |-> Loaded(TestConfig)], TRUE, TRUE),
      Env("", [n \in {".boundaries.yml"} |-> Loaded(TestConfig)], FALSE, TRUE),
      Env("", [n \in {".boundaries.yml"} |-> Loaded(ListDocument)], TRUE, TRUE),
      Env("", [n \in {".boundaries.yaml"} |-> [load |-> "error"]], TRUE, TRUE),
      Env("", [n \in {".boundaries.yaml"} |-> [load |-> "ok"]], TRUE, TRUE),
      Env("", [n \in {".boundaries.toml", "pyproject.toml"} |->
                  IF n = ".boundaries.toml" THEN Loaded([other |-> TRUE])
                  ELSE Loaded([tool |-> [boundaries |-> AllowConfig]])], TRUE, TRUE),
      Env("", [n \in {"ruff.toml"} |-> Loaded([boundaries |-> AllowConfig])], TRUE, TRUE),
      Env("", [n \in {"ruff.toml"} |-> Loaded([boundaries |-> AllowConfig])], TRUE, FALSE),
      Env("", [n \in {"pyproject.toml"} |->
                  Loaded([tool |-> [ruff |-> [boundaries |-> AllowConfig]]])], TRUE, TRUE),
      Env("pyproject.toml", [n \in {".boundaries.yml", "pyproject.toml"} |->
                  IF n = ".boundaries.yml" THEN Loaded(AllowConfig)
                  ELSE Loaded([tool |-> [ruff |-> [other |-> TRUE]]])], TRUE, TRUE),
      Env("custom.json", [n \in {"custom.json", "ruff.toml"} |->
                  Loaded([boundaries |-> TestConfig])], TRUE, TRUE) }

NoDuplicates(seq) == \A i, j \in DOMAIN seq : i # j => seq[i] # seq[j]

ReadMe == [path |-> <<"README", ".", "md">>, readable |-> TRUE, content |-> [parses |-> FALSE]]

RootPool ==
    { [exists |-> FALSE] }
    \cup { [exists |-> TRUE, is_file |-> TRUE, file |-> f, glob |-> <<>>] :
             f \in FilePool \cup {ReadMe} }
    \cup { [exists |-> TRUE, is_file |-> FALSE, glob |-> g] :
             g \in {q \in SeqsUpTo(FilePool, MaxFiles) : NoDuplicates(q)} }

Init ==
    /\ root \in RootPool
    /\ env \in EnvPool
    /\ no_fail \in BOOLEAN
    /\ pc = "start"
    /\ config = <<>>
    /\ python_files = <<>>
    /\ idx = 0
    /\ violations_found = FALSE
    /\ all_violations = <<>>
    /\ stdout = <<>>
    /\ exit_code = -1
    /\ checked = <<>>
    /\ call = [fn |-> "main"]
    /\ ret = NotCalled

Next == CheckPath \/ LoadConfigStep \/ Scan \/ CheckNextFile \/ Summary

Spec == Init /\ [][Next]_vars

-----------------------------------------------------------------------------
(* The loop of main() run by a pool of workers.  Every worker executes the *)
(* loop body (lines 292-309) on the next file of the shared iterator over  *)
(* python_files, and check_file advances statement by statement, so that   *)
(* invocations for different files interleave.  A frame holds the locals   *)
(* of one check_file invocation; config, the iterator, violations_found,   *)
(* all_violations and stdout are shared as they are in main().  Lines      *)
(* 299-309 are one step: a file's violations are reported as one unit.     *)

Workers == {"w1", "w2"}

Idle == [step |-> "idle"]

\* Variant: violations is one list shared by the invocations in flight
AppendToShared(frames, w, violation) ==
    [u \in Workers |->
        IF "violations" \in DOMAIN frames[u]
        THEN [frames[u] EXCEPT !.violations = @ \o violation]
        ELSE frames[u]]

\* violations.append(...) on the list of the invocation of worker w
AppendViolation(frames, w, violation) ==
    [frames EXCEPT ![w].violations = @ \o violation]

\* lines 292-298: the next file of the iterator, the group line, the call
TakeFile(w) ==
    /\ pc = "check"
    /\ call.frames[w] = Idle
    /\ idx <= Len(python_files)
    /\ call' = [call EXCEPT !.frames[w] =
                   [step |-> "type", file |-> python_files[idx],
                    rel_path |-> RelPath(python_files[idx], root), out |-> <<>>]]
    /\ stdout' = stdout \o <<[kind |-> "group",
                              file |-> RelPath(python_files[idx], root)]>>
    /\ idx' = idx + 1
    /\ UNCHANGED <<ret, root, env, no_fail, pc, config, python_files, violations_found,
                   all_violations, exit_code, checked>>

\* lines 209-211
ClassifyFile(w) ==
    /\ pc = "check"
    /\ call.frames[w].step = "type"
    /\ LET frame     == call.frames[w]
           file_type == DetermineElementType(frame.file.path, Get(config, "elements", <<>>))
       IN  /\ stdout' = stdout \o file_type.out
           /\ call' = [call EXCEPT !.frames[w] =
                          IF ~Truthy(file_type.ret)
                          THEN [step |-> "return", file |-> frame.file,
                                rel_path |-> frame.rel_path,
                                out |-> frame.out \o file_type.out, violations |-> <<>>]
                          ELSE [step |-> "extract", file |-> frame.file,
                                rel_path |-> frame.rel_path,
                                out |-> frame.out \o file_type.out,
                                file_type |-> file_type.ret]]
    /\ UNCHANGED <<ret, root, env, no_fail, pc, config, python_files, idx,
                   violations_found, all_violations, exit_code, checked>>

\* lines 214-215; extract_imports catches every exception (line 153)
ExtractFileImports(w) ==
    /\ pc = "check"
    /\ call.frames[w].step = "extract"
    /\ LET frame   == call.frames[w]
           imports == ExtractImports(frame.file)
       IN  /\ stdout' = stdout \o imports.out
           /\ call' = [call EXCEPT !.frames[w] =
                          [step |-> IF Len(imports.ret) = 0 THEN "return" ELSE "imports",
                           file |-> frame.file, rel_path |-> frame.rel_path,
                           out |-> frame.out \o imports.out,
                           file_type |-> frame.file_type,
                           imports |-> imports.ret, violations |-> <<>>]]
    /\ UNCHANGED <<ret, root, env, no_fail, pc, config, python_files, idx,
                   violations_found, all_violations, exit_code, checked>>

\* lines 217-230, one iteration of the loop over imports
CheckImport(w) ==
    /\ pc = "check"
    /\ call.frames[w].step = "imports"
    /\ LET frame       == call.frames[w]
           line_num    == Head(frame.imports)[1]
           import_name == Head(frame.imports)[2]
           pseudo_path == ImportNameToPseudoPath(import_name)
           import_type == DetermineElementType(pseudo_path, Get(config, "elements", <<>>))
           violation   ==
               IF /\ Truthy(import_type.ret) /\ import_type.ret # frame.file_type
                  /\ ~IsAllowedDependency(frame.file_type, import_type.ret,
                                          Get(config, "rules", <<>>))
               THEN << <<line_num, frame.file_type, import_type.ret, import_name>> >>
               ELSE <<>>
           appended    == AppendViolation(call.frames, w, violation)
       IN  /\ stdout' = stdout \o import_type.out
           /\ call' = [call EXCEPT !.frames =
                          [appended EXCEPT
                              ![w].imports = Tail(frame.imports),
                              ![w].out = @ \o import_type.out,
                              ![w].step = IF Len(frame.imports) = 1
                                          THEN "return" ELSE "imports"]]
    /\ UNCHANGED <<ret, root, env, no_fail, pc, config, python_files, idx,
                   violations_found, all_violations, exit_code, checked>>

\* line 232 and lines 299-309
ReturnFile(w) ==
    /\ pc = "check"
    /\ call.frames[w].step = "return"
    /\ LET frame      == call.frames[w]
           rel_path   == frame.rel_path
           violations == frame.violations
       IN  /\ checked' = Append(checked, [file |-> frame.file, violations |-> violations,
                                          out |-> frame.out, raised |-> FALSE])
           /\ IF Len(violations) > 0
              THEN /\ violations_found' = TRUE
                   /\ all_violations' = all_violations \o WithRelPath(rel_path, violations)
                   /\ stdout' = stdout
                         \o [i \in DOMAIN violations |-> ViolationError(rel_path, violations[i])]
                         \o <<[kind |-> "endgroup"]>>
              ELSE /\ stdout' = stdout \o <<[kind |-> "no violations"], [kind |-> "endgroup"]>>
                   /\ UNCHANGED <<violations_found, all_violations>>
    /\ call' = [call EXCEPT !.frames[w] = Idle]
    /\ UNCHANGED <<ret, root, env, no_fail, pc, config, python_files, idx, exit_code>>

\* lines 311-318, once the iterator is exhausted and every invocation returned
JoinSummary ==
    /\ \A w \in Workers : call.frames[w] = Idle
    /\ Summary

\* three files of the pool: two with violations under the default
\* configuration, one that does not parse
WorkerFiles ==
    {f \in FilePool : f.path[5] \in {"invalid", "nested", "broken"}}

WorkerRoots ==
    {r \in RootPool : /\ r.exists /\ ~r.is_file /\ Len(r.glob) > 0
                      /\ \A i \in DOMAIN r.glob : r.glob[i] \in WorkerFiles}

\* no configuration file (the default configuration), and a YAML file
WorkerEnvs ==
    {e \in EnvPool : /\ e.config_path = "" /\ e.yaml /\ e.tomli
                     /\ \/ DOMAIN e.files = {}
                        \/ /\ DOMAIN e.files = {".boundaries.yml"}
                           /\ IsDict(LoadConfig(e).ret)}

InitWorkers ==
    /\ root \in WorkerRoots
    /\ env \in WorkerEnvs
    /\ no_fail \in BOOLEAN
    /\ pc = "start"
    /\ config = <<>>
    /\ python_files = <<>>
    /\ idx = 0
    /\ violations_found = FALSE
    /\ all_violations = <<>>
    /\ stdout = <<>>
    /\ exit_code = -1
    /\ checked = <<>>
    /\ call = [fn |-> "main", frames |-> [w \in Workers |-> Idle]]
    /\ ret = NotCalled

NextWorkers ==
    \/ CheckPath
    \/ LoadConfigStep
    \/ Scan
    \/ \E w \in Workers :
          TakeFile(w) \/ ClassifyFile(w) \/ ExtractFileImports(w) \/ CheckImport(w)
              \/ ReturnFile(w)
    \/ JoinSummary

SpecWorkers == InitWorkers /\ [][NextWorkers]_vars

-----------------------------------------------------------------------------
(* Rule engine claims                                                      *)

IsRuleQuery == call.fn = "is_allowed_dependency" /\ ret.called

AllowLists(rule, to_type) == "allow" \in DOMAIN rule /\ In(to_type, rule.allow)
DisallowLists(rule, to_type) == "disallow" \in DOMAIN rule /\ In(to_type, rule.disallow)

\* the rule is for from_type and names to_type under allow or disallow
Mentions(rule, from_type, to_type) ==
    /\ "from" \in DOMAIN rule /\ rule.from = from_type
    /\ (AllowLists(rule, to_type) \/ DisallowLists(rule, to_type))

MentioningIndexes(rules, from_type, to_type) ==
    LET sp == Get(rules, "specific", <<>>)
    IN  {i \in DOMAIN sp : Mentions(sp[i], from_type, to_type)}

DefaultIsAllow(rules) == "default" \in DOMAIN rules /\ rules.default = "allow"

\* C1: for from_type # to_type the verdict is that of the first rule (in list
\* order) for from_type that names to_type, allow taking precedence inside that
\* rule; rules for from_type that do not name to_type never block a later rule
\* and the verdict is the same with them removed; with no such rule the default
\* policy decides.
C1_OrderedScan ==
    (IsRuleQuery /\ call.from_type # call.to_type) =>
        LET f  == call.from_type
            t  == call.to_type
            sp == Get(call.rules, "specific", <<>>)
            D  == MentioningIndexes(call.rules, f, t)
            mentioning(r) == Mentions(r, f, t)
        IN  /\ D # {} =>
                 LET first == CHOOSE i \in D : \A j \in D : i <= j
                 IN  ret.ret = AllowLists(sp[first], t)
            /\ D = {} => ret.ret = DefaultIsAllow(call.rules)
            /\ "specific" \in DOMAIN call.rules =>
                 ret.ret = IsAllowedDependency(f, t,
                              [call.rules EXCEPT !.specific = SelectSeq(sp, mentioning)])

\* a rule for from_type that does not name to_type precedes the deciding rule,
\* and the deciding rule overrides the default policy
C1_Witness ==
    /\ IsRuleQuery /\ call.from_type # call.to_type
    /\ LET sp == Get(call.rules, "specific", <<>>)
       IN  /\ Len(sp) = 2
           /\ sp[1].from = call.from_type
           /\ ~Mentions(sp[1], call.from_type, call.to_type)
           /\ Mentions(sp[2], call.from_type, call.to_type)
           /\ ret.ret # DefaultIsAllow(call.rules)

\* C7: with default "disallow" (or no 'default' key) and no specific rule whose
\* 'from' is from_type, every dependency on another type is disallowed.
C7_DefaultDisallow ==
    ( /\ IsRuleQuery /\ call.from_type # call.to_type
      /\ ~DefaultIsAllow(call.rules)
      /\ LET sp == Get(call.rules, "specific", <<>>)
         IN  \A i \in DOMAIN sp : Get(sp[i], "from", None) # call.from_type )
    => ret.ret = FALSE

\* no 'default' key, and the only rules are for another type and allow to_type
C7_Witness ==
    /\ IsRuleQuery /\ call.from_type # call.to_type
    /\ "default" \notin DOMAIN call.rules
    /\ LET sp == Get(call.rules, "specific", <<>>)
       IN  /\ Len(sp) > 0
           /\ \A i \in DOMAIN sp :
                 sp[i].from # call.from_type /\ AllowLists(sp[i], call.to_type)
    /\ ret.ret = FALSE

\* C8: with default "allow", a disallowed dependency implies a specific rule for
\* from_type that lists to_type under disallow.
C8_DefaultAllow ==
    (IsRuleQuery /\ DefaultIsAllow(call.rules) /\ ret.ret = FALSE) =>
        LET sp == Get(call.rules, "specific", <<>>)
        IN  \E i \in DOMAIN sp :
               /\ Get(sp[i], "from", None) = call.from_type
               /\ DisallowLists(sp[i], call.to_type)

\* default "allow": one query is disallowed by a rule
C8_Witness ==
    /\ IsRuleQuery /\ DefaultIsAllow(call.rules)
    /\ ret.ret = FALSE
    /\ Len(Get(call.rules, "specific", <<>>)) = 2

-----------------------------------------------------------------------------
(* Pattern matcher claims                                                  *)

IsClassified == call.fn = "determine_element_type" /\ ret.called

HasPattern(element) == "pattern" \in DOMAIN element /\ Len(element.pattern) > 0
Invalid(element) == HasPattern(element) /\ RegexError(element.pattern)
Matches(element, path) ==
    HasPattern(element) /\ ~RegexError(element.pattern) /\ ReSearch(element.pattern, path)

MatchingIndexes(elements, path) == {i \in DOMAIN elements : Matches(elements[i], path)}

Least(S) == CHOOSE i \in S : \A j \in S : i <= j

Swap(seq, i, j) == [seq EXCEPT ![i] = seq[j], ![j] = seq[i]]

\* C4: the result is the type of the first element, in list order, whose non-empty
\* pattern matches the path by search; elements with an empty pattern are skipped;
\* the result is none when no element matches; and exchanging the winning element
\* with a later element that also matches makes the later element's type the result.
C4_FirstMatchWins ==
    IsClassified =>
        LET M == MatchingIndexes(call.elements, call.file_path)
        IN  /\ M = {} => ret.ret = None
            /\ M # {} =>
                 /\ ret.ret = call.elements[Least(M)].type
                 /\ \A j \in M \ {Least(M)} :
                       DetermineElementType(call.file_path,
                                            Swap(call.elements, Least(M), j)).ret
                           = call.elements[j].type

\* two elements of different types both match; the earlier one wins, behind an
\* element with an empty pattern
C4_Witness ==
    /\ IsClassified
    /\ Len(call.elements) = 3
    /\ ~HasPattern(call.elements[1])
    /\ MatchingIndexes(call.elements, call.file_path) = {2, 3}
    /\ call.elements[2].type # call.elements[3].type
    /\ ret.ret = call.elements[2].type

\* C6: elements whose pattern does not compile are skipped, each with a warning
\* naming the pattern, and the result is the one obtained with them removed.
C6_InvalidPatternSkipped ==
    IsClassified =>
        LET valid(e) == ~Invalid(e)
            M == MatchingIndexes(call.elements, call.file_path)
            tried == IF M = {} THEN call.elements
                     ELSE SubSeq(call.elements, 1, Least(M) - 1)
            bad == SelectSeq(tried, Invalid)
        IN  /\ ret.ret = DetermineElementType(call.file_path,
                                              SelectSeq(call.elements, valid)).ret
            /\ ret.out = [i \in DOMAIN bad |-> RegexWarning(bad[i].pattern)]
            /\ M # {} => ret.ret = call.elements[Least(M)].type

\* an invalid pattern precedes the element that classifies the path
C6_Witness ==
    /\ IsClassified
    /\ Len(call.elements) >= 2
    /\ Invalid(call.elements[1])
    /\ Matches(call.elements[2], call.file_path)
    /\ ret.ret = call.elements[2].type
    /\ Len(ret.out) = 1

-----------------------------------------------------------------------------
(* Boundary checker claims                                                 *)

IsChecked == call.fn = "check_file" /\ ret.called
IsExtracted == call.fn = "extract_imports" /\ ret.called

\* the element type of a path: that of the first element whose pattern matches
TypeOf(path, cfg) ==
    LET elements == Get(cfg, "elements", <<>>)
        M == MatchingIndexes(elements, path)
    IN  IF M = {} THEN None ELSE elements[Least(M)].type

\* the import record is a violation for a file of type file_type
IsViolation(import, file_type, cfg) ==
    LET import_type == TypeOf(ImportNameToPseudoPath(import[2]), cfg)
    IN  /\ import_type # None
        /\ import_type # file_type
        /\ ~IsAllowedDependency(file_type, import_type, Get(cfg, "rules", <<>>))

\* C2: check_file returns the empty sequence when the path matches no element,
\* and otherwise, in extraction order, one violation (line, file_type, import_type,
\* module_name) for exactly the import records whose pseudo-path resolves to an
\* element type other than file_type that the rules do not allow; imports that
\* resolve to no element and files without imports give none.
C2_CheckFileResult ==
    IsChecked =>
        LET file_type == TypeOf(call.file.path, call.config)
            imports   == ExtractImports(call.file).ret
            violates(import) == IsViolation(import, file_type, call.config)
            expected  == SelectSeq(imports, violates)
        IN  /\ file_type = None => ret.ret = <<>>
            /\ file_type # None =>
                 ret.ret = [i \in DOMAIN expected |->
                              <<expected[i][1], file_type,
                                TypeOf(ImportNameToPseudoPath(expected[i][2]), call.config),
                                expected[i][2]>>]
            /\ \A i \in DOMAIN ret.ret :
                 TypeOf(ImportNameToPseudoPath(ret.ret[i][4]), call.config) # None
            /\ Len(imports) = 0 => ret.ret = <<>>

\* a monitored file with an import that is a violation, one that is allowed and
\* one that resolves to no element
C2_Witness ==
    /\ IsChecked
    /\ Len(ret.ret) = 1
    /\ LET file_type == TypeOf(call.file.path, call.config)
           imports   == ExtractImports(call.file).ret
       IN  /\ Len(imports) >= 3
           /\ \E i \in DOMAIN imports :
                 TypeOf(ImportNameToPseudoPath(imports[i][2]), call.config) = None
           /\ \E i \in DOMAIN imports :
                 /\ TypeOf(ImportNameToPseudoPath(imports[i][2]), call.config)
                        \notin {None, file_type}
                 /\ ~IsViolation(imports[i], file_type, call.config)

\* C3: a dependency within the same element is never a violation:
\* is_allowed_dependency(t, t, rules) is true whatever the rules, and check_file
\* returns no violation whose to_type equals its from_type.
C3_SameElementAllowed ==
    /\ (call.fn = "is_allowed_dependency" /\ ret.called /\ call.from_type = call.to_type)
          => ret.ret = TRUE
    /\ IsChecked => \A i \in DOMAIN ret.ret : ret.ret[i][2] # ret.ret[i][3]

\* the rules disallow by default and a rule for t lists t under disallow
C3_Witness ==
    /\ call.fn = "is_allowed_dependency" /\ ret.called
    /\ call.from_type = call.to_type
    /\ ~DefaultIsAllow(call.rules)
    /\ \E i \in DOMAIN call.rules.specific :
          /\ call.rules.specific[i].from = call.from_type
          /\ DisallowLists(call.rules.specific[i], call.to_type)
          /\ ~AllowLists(call.rules.specific[i], call.to_type)
    /\ ret.ret = TRUE

NonDecreasingLines(records) ==
    \A i, j \in DOMAIN records : i <= j => records[i][1] <= records[j][1]

\* C5: the import records of extract_imports, and the violations of check_file,
\* are in source order: their line numbers are non-decreasing, also when imports
\* are nested in function, class or conditional bodies.
C5_SourceOrder ==
    /\ IsExtracted => NonDecreasingLines(ret.ret)
    /\ IsChecked => NonDecreasingLines(ret.ret)

-----------------------------------------------------------------------------
(* Claims about a run of main()                                            *)

\* the file cannot be read, or does not parse
Fails(file) == ~file.readable \/ ~file.content.parses

IsFileWarning(line) == line.kind = "warning" /\ "file" \in DOMAIN line

Exited == pc = "exit" /\ root.exists

\* the violations of a run over files, as main collects them
RECURSIVE ViolationsOver(_, _, _)
ViolationsOver(files, cfg, r) ==
    IF Len(files) = 0 THEN <<>>
    ELSE WithRelPath(RelPath(Head(files), r), CheckFile(Head(files), cfg).ret)
            \o ViolationsOver(Tail(files), cfg, r)

\* main reached its loop over python_files
Scanned == \E i \in DOMAIN stdout : stdout[i].kind = "files"

\* C9: a monitored file that cannot be read or parsed gives no violation and
\* exactly one warning about the file (the only line printed for it when every
\* pattern of the configuration compiles); the loop goes on to every remaining
\* file, and what the run collects is what it collects without the failing files.
C9_FailureContained ==
    /\ \A k \in DOMAIN checked :
          (Fails(checked[k].file) /\ TypeOf(checked[k].file.path, config) # None) =>
              /\ ~checked[k].raised
              /\ checked[k].violations = <<>>
              /\ SelectSeq(checked[k].out, IsFileWarning)
                    = <<FileWarning(checked[k].file.path,
                                    IF checked[k].file.readable THEN "syntax" ELSE "read")>>
              /\ (\A i \in DOMAIN config.elements : ~Invalid(config.elements[i]))
                    => Len(checked[k].out) = 1
    /\ (Exited /\ Scanned) =>
          LET parses(f) == ~Fails(f)
          IN  /\ Len(checked) = Len(python_files)
              /\ \A k \in DOMAIN checked : checked[k].file = python_files[k]
              /\ all_violations = ViolationsOver(SelectSeq(python_files, parses), config, root)

\* the first file does not parse, the second one is checked and has a violation
C9_Witness ==
    /\ Exited
    /\ Len(checked) = 2
    /\ checked[1].file.readable /\ ~checked[1].file.content.parses
    /\ TypeOf(checked[1].file.path, config) # None
    /\ Len(checked[2].violations) > 0
    /\ Len(all_violations) > 0

\* C10: a run over an existing path exits with a non-zero status exactly when
\* some checked file had a violation and --no-fail was not given; a run that
\* exits 0 has checked every file.
C10_ExitStatus ==
    Exited =>
        LET found == \E k \in DOMAIN checked : Len(checked[k].violations) > 0
        IN  /\ (exit_code # 0) <=> (found /\ ~no_fail)
            /\ exit_code = 0 => Len(checked) = Len(ScanPythonFiles(root))

\* the configuration file load_config reads, None when there is none
ConfigFile(e) ==
    IF e.config_path # "" /\ e.config_path \in DOMAIN e.files
    THEN e.config_path
    ELSE FirstExisting(ConfigPaths, e.files)

IsYaml(name) == Suffix(name) \in {".yml", ".yaml"}

IsToml(name) == Suffix(name) = ".toml"

ConfigMissing(e) == ConfigFile(e) = None

\* open or the parser raises
ConfigUnreadable(e) ==
    /\ ~ConfigMissing(e)
    /\ e.files[ConfigFile(e)].load = "error"

\* the parser of the file's format is not installed, or there is none
ConfigFormatUnavailable(e) ==
    /\ ~ConfigMissing(e)
    /\ \/ IsYaml(ConfigFile(e)) /\ ~e.yaml
       \/ IsToml(ConfigFile(e)) /\ ~e.tomli
       \/ ~IsYaml(ConfigFile(e)) /\ ~IsToml(ConfigFile(e))

\* the TOML document d of the file has a boundaries section
HasSection(name, d) ==
    IF name = "pyproject.toml"
    THEN /\ "tool" \in DOMAIN d
         /\ \/ "ruff" \in DOMAIN d.tool /\ "boundaries" \in DOMAIN d.tool.ruff
            \/ "boundaries" \in DOMAIN d.tool
    ELSE "boundaries" \in DOMAIN d

\* an empty document, or a TOML file without a boundaries section
ConfigEmpty(e) ==
    /\ ~ConfigMissing(e) /\ ~ConfigUnreadable(e) /\ ~ConfigFormatUnavailable(e)
    /\ \/ "data" \notin DOMAIN e.files[ConfigFile(e)]
       \/ /\ IsToml(ConfigFile(e))
          /\ ~HasSection(ConfigFile(e), e.files[ConfigFile(e)].data)

\* the document parses, but the configuration in it is no mapping
ConfigMalformed(e) ==
    /\ ~ConfigMissing(e) /\ ~ConfigUnreadable(e) /\ ~ConfigFormatUnavailable(e)
    /\ "data" \in DOMAIN e.files[ConfigFile(e)]
    /\ IF IsYaml(ConfigFile(e))
       THEN ~IsDict(e.files[ConfigFile(e)].data)
       ELSE ~IsDict(FromToml(ConfigFile(e), e.files[ConfigFile(e)].data))

ConfigLoaded == root.exists /\ pc \notin {"start", "load_config"}

\* C11: when the configuration is missing, unreadable, in an unavailable
\* format, empty or malformed, load_config gives the default configuration and
\* the run goes on to scan and check files instead of terminating.
C11_ConfigErrorsNotFatal ==
    (/\ ConfigLoaded
     /\ \/ ConfigMissing(env) \/ ConfigUnreadable(env) \/ ConfigFormatUnavailable(env)
        \/ ConfigEmpty(env) \/ ConfigMalformed(env))
    => /\ config = DefaultConfig
       /\ pc = "exit" => (Scanned /\ Len(checked) = Len(ScanPythonFiles(root)))

\* C11 without the malformed case
C11_OtherThanMalformed ==
    (/\ ConfigLoaded
     /\ \/ ConfigMissing(env) \/ ConfigUnreadable(env) \/ ConfigFormatUnavailable(env)
        \/ ConfigEmpty(env))
    => /\ config = DefaultConfig
       /\ pc = "exit" => (Scanned /\ Len(checked) = Len(ScanPythonFiles(root)))

HasLine(kind) == \E i \in DOMAIN stdout : stdout[i].kind = kind

\* C12: a root path that does not exist ends the run at once: main prints the
\* error and exits with status 1, with no configuration loaded, no file
\* discovered, no file checked and no completion summary; whatever run loaded
\* a configuration, scanned or checked a file had an existing root.
C12_MissingPathFatal ==
    /\ (~root.exists /\ pc # "start") =>
          /\ pc = "exit"
          /\ exit_code = 1
          /\ stdout = <<[kind |-> "error", what |-> "path does not exist"]>>
          /\ config = <<>>
          /\ python_files = <<>>
          /\ checked = <<>>
    /\ (HasLine("loaded") \/ HasLine("files") \/ HasLine("group") \/ HasLine("done")
          \/ pc \in {"load_config", "scan", "check"})
          => root.exists

\* the run over a missing path has ended
C12_Witness ==
    /\ ~root.exists
    /\ pc = "exit"
    /\ exit_code = 1
    /\ HasLine("error")

-----------------------------------------------------------------------------
(* Claims about the loop run by a pool of workers                          *)

\* the sum of the lengths of the lists check_file gives for files, each file
\* checked on its own
RECURSIVE CountOver(_, _)
CountOver(files, cfg) ==
    IF Len(files) = 0 THEN 0
    ELSE Len(CheckFile(Head(files), cfg).ret) + CountOver(Tail(files), cfg)

\* the entries of all_violations that belong to the file rel_path
ViolationsOf(rel_path) ==
    LET of(v) == v[1] = rel_path
    IN  SelectSeq(all_violations, of)

\* C13: whatever the order in which the files are taken and however the
\* check_file invocations of two workers interleave, the configuration stays
\* what load_config returned, the list an invocation returns for a file is the
\* list check_file gives for that file alone, and at the end every file has
\* been checked once and the aggregate count is the sum of the per-file counts.
C13_OrderIndependent ==
    /\ ConfigLoaded => config = LoadConfig(env).ret
    /\ \A k \in DOMAIN checked :
          /\ checked[k].violations = CheckFile(checked[k].file, LoadConfig(env).ret).ret
          /\ ViolationsOf(RelPath(checked[k].file, root))
                = WithRelPath(RelPath(checked[k].file, root), checked[k].violations)
    /\ Exited =>
          LET total == CountOver(python_files, LoadConfig(env).ret)
          IN  /\ Len(checked) = Len(python_files)
              /\ \A i \in DOMAIN python_files :
                    \E k \in DOMAIN checked : checked[k].file = python_files[i]
              /\ Len(all_violations) = total
              /\ violations_found <=> total > 0
              /\ total > 0 => stdout[Len(stdout)] = [kind |-> "error", total |-> total]

\* two files with violations were in flight together: the file taken second
\* returned first
C13_Witness ==
    /\ Exited
    /\ Len(checked) >= 2
    /\ checked[1].file = python_files[2]
    /\ checked[2].file = python_files[1]
    /\ Len(checked[1].violations) > 0
    /\ Len(checked[2].violations) > 0

=============================================================================
